---- MODULE Spec2Model ----
(***************************************************************************)
(* kubelogs: pod discovery (cmdGetPods) and the concurrent log streamer of *)
(* NewCmdLogs.Run, src/command/logs.go, with main of src/main.go.          *)
(*                                                                         *)
(* Strings are sequences of one-character strings.  The text a log-fetch   *)
(* subprocess writes is a sequence of integers: the k-th byte written on a *)
(* channel is k when it is a data byte and -k when it is the newline, so   *)
(* that every line read back names the place it was written at.            *)
(***************************************************************************)
EXTENDS Integers, Sequences, FiniteSets, TLC

\* ------------------------------------------------------------------ bounds
MaxArgs == 2      \* pattern arguments of a run
MaxRecords == 2   \* pods of the cluster
MaxTasks == 2     \* goroutines of a run with subprocesses
MaxOut == 2       \* bytes the subprocesses of a run write between them
PipeCap == 1      \* bytes a pipe holds
DrainTasks == 1   \* goroutines of a run whose subprocesses need not exit

\* ----------------------------------------------------------------- strings
Chan == {"stdout", "stderr"}

IndexOf(s, c) ==
  IF \E i \in 1..Len(s) : s[i] = c
    THEN CHOOSE i \in 1..Len(s) : s[i] = c /\ \A j \in 1..(i - 1) : s[j] # c
    ELSE 0

Drop(s, n) == SubSeq(s, n + 1, Len(s))

\* strings.Split(s, sep) for a one-character separator: always at least one
\* piece, and a trailing separator gives a last, empty piece.
RECURSIVE Split(_, _)
Split(s, sep) ==
  LET i == IndexOf(s, sep)
  IN  IF i = 0 THEN <<s>>
      ELSE <<SubSeq(s, 1, i - 1)>> \o Split(Drop(s, i), sep)

RECURSIVE Flatten(_)
Flatten(ss) == IF ss = <<>> THEN <<>> ELSE Head(ss) \o Flatten(Tail(ss))

\* ------------------------------------------------------------------ regexp
\* The patterns of the model use literals, ".", a postfix "*", the
\* assertions "^" and "$" and the lone "(": regexp.Compile rejects unbalanced
\* parentheses and a "*" that has nothing to repeat, at the start, after "("
\* or after another "*"; an assertion is an operand, so "^*" compiles.
RECURSIVE ParenDepthOk(_, _)
ParenDepthOk(re, depth) ==
  IF re = <<>> THEN depth = 0
  ELSE IF Head(re) = "(" THEN ParenDepthOk(Tail(re), depth + 1)
  ELSE IF Head(re) = ")" THEN depth > 0 /\ ParenDepthOk(Tail(re), depth - 1)
  ELSE ParenDepthOk(Tail(re), depth)

Compile(re) ==
  /\ ParenDepthOk(re, 0)
  /\ \A i \in 1..Len(re) :
       re[i] = "*" => i > 1 /\ re[i - 1] \notin {"*", "("}

\* atStart: nothing of the string precedes text
RECURSIVE matchhere(_, _, _)
matchstar(c, re, text, atStart) ==
  \E k \in 0..Len(text) :
    /\ \A j \in 1..k : c = "." \/ text[j] = c
    /\ matchhere(re, Drop(text, k), atStart /\ k = 0)

matchhere(re, text, atStart) ==
  IF re = <<>> THEN TRUE
  ELSE IF Len(re) >= 2 /\ re[2] = "*"
    THEN IF re[1] \in {"^", "$"}
           THEN matchhere(Drop(re, 2), text, atStart)
           ELSE matchstar(re[1], Drop(re, 2), text, atStart)
  ELSE IF re[1] = "^" THEN atStart /\ matchhere(Tail(re), text, atStart)
  ELSE IF re[1] = "$" THEN text = <<>> /\ matchhere(Tail(re), text, atStart)
  ELSE IF text # <<>> /\ (re[1] = "." \/ re[1] = text[1])
    THEN matchhere(Tail(re), Tail(text), FALSE)
  ELSE FALSE

\* (*Regexp).MatchString: an unanchored search.
MatchString(re, s) ==
  \E k \in 0..Len(s) : matchhere(re, Drop(s, k), k = 0)

\* -------------------------------------------------------------- cmdGetPods
\* as strings.Contains(c, cName) would keep
KeepContainerContains(cName, c) ==
  cName = <<>> \/ \E k \in 0..(Len(c) - Len(cName)) : SubSeq(c, k + 1, k + Len(cName)) = cName

\* logs.go:204  if cName != "" && cName != c { continue }
KeepContainer(cName, c) == cName = <<>> \/ cName = c

\* logs.go:199-212  one kept record
MakePod(cs, cName) ==
  [Name |-> cs[1],
   Containers |-> SelectSeq(Tail(cs), LAMBDA c : KeepContainer(cName, c))]

\* as an append guarded by len(pod.Containers) > 0 would do
AppendPodIfContainers(pod) == IF pod.Containers = <<>> THEN <<>> ELSE <<pod>>

\* logs.go:212  pods.Items = append(pods.Items, pod), whatever containers the
\* pod has kept
AppendPod(pod) == <<pod>>

\* logs.go:193-213  the loop over the pieces of the discovery output
RECURSIVE PodsOf(_, _, _)
PodsOf(ps, pr, cName) ==
  IF ps = <<>> THEN <<>>
  ELSE LET cs == Split(Head(ps), " ")
       IN  (IF MatchString(pr, cs[1]) THEN AppendPod(MakePod(cs, cName)) ELSE <<>>)
             \o PodsOf(Tail(ps), pr, cName)

\* logs.go:190-215  Pods.Items of a discovery that succeeded, for a pattern
\* that compiles
cmdGetPods(podRegexp, cName, out) == PodsOf(Split(out, "|"), podRegexp, cName)

\* ------------------------------------------------- the discovery invocation
\* logs.go:179  the jsonpath template "{name} {container names}|" of one pod
FormatRecord(r) ==
  r.name \o Flatten([i \in 1..Len(r.cs) |-> <<" ">> \o r.cs[i]]) \o <<"|">>

FormatOutput(rs) == Flatten([i \in 1..Len(rs) |-> FormatRecord(rs[i])])

\* ------------------------------------------------------------------- state
VARIABLES
  args,      \* the pattern arguments
  copt,      \* the --container flag: [changed, value]; value is o.Container
  cluster,   \* the pods of the namespace: records [name, cs]
  failAt,    \* the discovery invocation that fails, 0 when none does
  quota,     \* the bytes the subprocesses of the run write between them
  mpc,       \* where main is: execute, help, resolve, launch, wait, returned,
             \* fatal
  argi,      \* index of the argument the resolve loop is at
  pods,      \* pods.Items
  reported,  \* the pod total of "kubelogs for %d pod", -1 before it is logged
  pi, ci,    \* indexes of the launch loops over pods.Items and pod.Containers
  wg,        \* the WaitGroup's counter
  fatal,     \* the fatal termination taken: none, usage, discovery, compile
  exitCode,  \* the process's exit status, -1 while it runs
  tasks,     \* per launched goroutine: [pod, container, str, prefix]
  tpc,       \* per task: where its goroutine is
  proc,      \* per task: its subprocess: none, the call that failed to start
             \* it, running, exited, and exit0 / exit1 once reaped
  written,   \* per task and channel: all the bytes the subprocess wrote
  pipe,      \* per task and channel: the bytes in the pipe, not yet read
  rdclosed,  \* per task: command.Wait() has closed the pipes' read ends
  rd,        \* per task and channel: the reader, [pc, buf]
  emitted,   \* per task and channel: the lines logged by the reader
  termlog    \* per task: its terminal records, "error" / "exit"

inputs == <<args, copt, cluster, failAt, quota>>
mainv == <<mpc, argi, pods, reported, pi, ci, fatal, exitCode>>
taskv == <<tasks, tpc, proc, written, pipe, rdclosed, rd, emitted, termlog>>
vars == <<inputs, mainv, wg, taskv>>

Tasks == 1..Len(tasks)

\* ------------------------------------------------------------------ inputs
PodNames == {<<"a">>, <<"a", "b">>, <<"b", "a">>}
ContainerLists ==
  {<<<<"w">>>>, <<<<"w">>, <<"W">>>>, <<<<"w", "x">>, <<"w">>>>, <<<<"W">>>>}
Records == [name : PodNames, cs : ContainerLists]

\* discovery outputs of at most n well-formed records, pod names unique
RecordSeqs(n) ==
  {rs \in UNION {[1..k -> Records] : k \in 0..n} :
     \A i, j \in 1..Len(rs) : i # j => rs[i].name # rs[j].name}

Patterns ==
  {<<"a">>, <<"b">>, <<"a", "b">>, <<"x">>, <<>>, <<".">>, <<".", "*">>,
   <<"^", "a">>, <<"a", "$">>, <<"^", "a", "$">>, <<"b", "*">>, <<"^", "*">>,
   <<"(">>}

ContainerOpts ==
  {[changed |-> FALSE, value |-> <<>>]} \cup
  {[changed |-> TRUE, value |-> v] : v \in {<<>>, <<"w">>, <<"W">>}}

ArgSeqs(P, n) == UNION {[1..k -> P] : k \in 0..n}

\* logs.go:179-180  cmd.CombinedOutput() of the i-th discovery invocation
DiscoveryErr(i) == i = failAt
DiscoveryOut == FormatOutput(cluster)

InitState ==
  /\ mpc = "execute" /\ argi = 1 /\ pods = <<>> /\ reported = -1
  /\ pi = 1 /\ ci = 1 /\ wg = 0 /\ fatal = "none" /\ exitCode = -1
  /\ tasks = <<>> /\ tpc = <<>> /\ proc = <<>> /\ written = <<>>
  /\ pipe = <<>> /\ rdclosed = <<>> /\ rd = <<>> /\ emitted = <<>>
  /\ termlog = <<>>

\* ----------------------------------------------------------- main: resolve
\* as logrus.Errorln(err) followed by continue would do
FatallnContinues(cause, i) ==
  [pc |-> "resolve", exit |-> 0 - 1, argi |-> i + 1, fatal |-> cause]

\* as logrus.Errorln(err) followed by return would do
FatallnReturns(cause, i) == [pc |-> "returned", exit |-> 0, argi |-> i, fatal |-> cause]

\* logs.go:84, 187  logrus.Fatalln: the message is logged and the process
\* exits 1
Fatalln(cause, i) == [pc |-> "fatal", exit |-> 1, argi |-> i, fatal |-> cause]

\* as append(p.Items, pods.Items...) would do
PrependItems(items, p) == p \o items

\* logs.go:87  pods.Items = append(pods.Items, p.Items...)
AppendItems(items, p) == items \o p

\* main.go:10-12  cmd.Execute() fails on the command line (an unknown flag, a
\* value that does not parse) before Run is called, and main calls log.Fatal
ExecuteUsageError ==
  /\ mpc = "execute"
  /\ mpc' = "fatal" /\ exitCode' = 1 /\ fatal' = "usage"
  /\ UNCHANGED <<inputs, argi, pods, reported, pi, ci, wg, taskv>>

\* main.go:10-13  the command line has --help or -h: cmd.Execute() prints the
\* help text and returns nil without calling Run, and main returns
ExecuteHelp ==
  /\ mpc = "execute"
  /\ mpc' = "help" /\ exitCode' = 0
  /\ UNCHANGED <<inputs, argi, pods, reported, pi, ci, fatal, wg, taskv>>

\* main.go:10, logs.go:67  Execute calls Run with the parsed flags
ExecuteRun ==
  /\ mpc = "execute"
  /\ mpc' = "resolve"
  /\ UNCHANGED <<inputs, argi, pods, reported, pi, ci, fatal, exitCode, wg, taskv>>

\* logs.go:82-85, 180-183  the discovery invocation of this argument fails
ResolveDiscoveryFail ==
  /\ mpc = "resolve" /\ argi <= Len(args)
  /\ DiscoveryErr(argi)
  /\ LET f == Fatalln("discovery", argi)
     IN  mpc' = f.pc /\ exitCode' = f.exit /\ argi' = f.argi /\ fatal' = f.fatal
  /\ UNCHANGED <<inputs, pods, reported, pi, ci, wg, taskv>>

\* logs.go:185-188  the pattern does not compile
ResolveCompileFail ==
  /\ mpc = "resolve" /\ argi <= Len(args)
  /\ ~DiscoveryErr(argi) /\ ~Compile(args[argi])
  /\ LET f == Fatalln("compile", argi)
     IN  mpc' = f.pc /\ exitCode' = f.exit /\ argi' = f.argi /\ fatal' = f.fatal
  /\ UNCHANGED <<inputs, pods, reported, pi, ci, wg, taskv>>

\* logs.go:81-88  one turn of the resolve loop
ResolveArg ==
  /\ mpc = "resolve" /\ argi <= Len(args)
  /\ ~DiscoveryErr(argi) /\ Compile(args[argi])
  /\ pods' = AppendItems(pods, cmdGetPods(args[argi], copt.value, DiscoveryOut))
  /\ argi' = argi + 1
  /\ UNCHANGED <<inputs, mpc, reported, pi, ci, fatal, exitCode, wg, taskv>>

\* logs.go:90-92  the loop is over: the pod total is logged
ResolveDone ==
  /\ mpc = "resolve" /\ argi > Len(args)
  /\ reported' = Len(pods)
  /\ mpc' = "launch"
  /\ UNCHANGED <<inputs, argi, pods, pi, ci, fatal, exitCode, wg, taskv>>

NextResolve ==
  \/ ExecuteUsageError \/ ExecuteHelp \/ ExecuteRun
  \/ ResolveDiscoveryFail \/ ResolveCompileFail \/ ResolveArg \/ ResolveDone

\* cmdGetPods on one pattern, over every cluster of at most MaxRecords pods
InitResolve ==
  /\ args \in ArgSeqs(Patterns, 1)
  /\ copt \in ContainerOpts
  /\ cluster \in RecordSeqs(MaxRecords)
  /\ failAt \in 0..Len(args)
  /\ quota = MaxOut
  /\ InitState

ResolveSpec == InitResolve /\ [][NextResolve]_vars

\* ------------------------------------------------------------ main: launch
\* logs.go:72-78  fg: " --name=value" for every flag the caller set
FlagString(c) ==
  IF c.changed THEN <<[name |-> "container", value |-> c.value]>> ELSE <<>>

\* as a test of the flag's Changed mark instead of o.Container would do
CommandStringByChanged(pod, container, c) ==
  [pod |-> pod.Name, fg |-> FlagString(c),
   container |-> IF ~c.changed THEN <<container>> ELSE <<>>]

\* logs.go:95-98  the log-fetch command line: pod, forwarded flags and, when
\* o.Container is empty, the appended " --container <name>"
CommandString(pod, container, c) ==
  [pod |-> pod.Name, fg |-> FlagString(c),
   container |-> IF c.value = <<>> THEN <<container>> ELSE <<>>]

\* logs.go:102  prefix := "[pod container]"
Prefix(pod, container) == <<pod.Name, container>>

\* as a loop that stops after the pod's first container would do
HasContainerFirstOnly(pod, i) == i <= 1 /\ i <= Len(pod.Containers)

\* logs.go:94  the inner loop has a container left for this pod
HasContainer(pod, i) == i <= Len(pod.Containers)

NewReader == [pc |-> "none", buf |-> <<>>]
NoBytes == [ch \in Chan |-> <<>>]

\* logs.go:94-105  one turn of the inner loop: wg.Add(1) and the go statement
LaunchTask ==
  /\ mpc = "launch" /\ pi <= Len(pods) /\ HasContainer(pods[pi], ci)
  /\ LET pod == pods[pi]
         c == pod.Containers[ci]
     IN  tasks' = Append(tasks, [pod |-> pi, container |-> ci,
                                 str |-> CommandString(pod, c, copt),
                                 prefix |-> Prefix(pod, c)])
  /\ wg' = wg + 1
  /\ tpc' = Append(tpc, "start")
  /\ proc' = Append(proc, "none")
  /\ written' = Append(written, NoBytes)
  /\ pipe' = Append(pipe, NoBytes)
  /\ rdclosed' = Append(rdclosed, FALSE)
  /\ rd' = Append(rd, [ch \in Chan |-> NewReader])
  /\ emitted' = Append(emitted, NoBytes)
  /\ termlog' = Append(termlog, <<>>)
  /\ ci' = ci + 1
  /\ UNCHANGED <<inputs, mpc, argi, pods, reported, pi, fatal, exitCode>>

\* logs.go:93-94  the inner loop is over: next pod
NextPod ==
  /\ mpc = "launch" /\ pi <= Len(pods) /\ ~HasContainer(pods[pi], ci)
  /\ pi' = pi + 1 /\ ci' = 1
  /\ UNCHANGED <<inputs, mpc, argi, pods, reported, fatal, exitCode, wg, taskv>>

\* logs.go:93, 159  the outer loop is over: main calls wg.Wait()
LaunchDone ==
  /\ mpc = "launch" /\ pi > Len(pods)
  /\ mpc' = "wait"
  /\ UNCHANGED <<inputs, argi, pods, reported, pi, ci, fatal, exitCode, wg, taskv>>

\* as a run without the wg.Wait() call would do
WaitPassesAlways(n) == TRUE

\* logs.go:159  wg.Wait() returns when the counter is zero
WaitPasses(n) == n = 0

\* logs.go:159-160, main.go:10-13  Run returns, Execute returns nil, main
\* returns: the process exits 0 and every goroutine ends with it
Return ==
  /\ mpc = "wait" /\ WaitPasses(wg)
  /\ mpc' = "returned" /\ exitCode' = 0
  /\ UNCHANGED <<inputs, argi, pods, reported, pi, ci, fatal, wg, taskv>>

\* goroutines run as long as the process does: until main returns, after the
\* help text or after Run, or the process exits through Fatalln or log.Fatal
Alive == mpc \notin {"help", "returned", "fatal"}

\* ------------------------------------------------------- the task goroutine
\* as a wg.Done() placed after command.Start() instead of a deferred one
\* would do: the three early returns before it skip it
TaskNextDoneAfterStart(pc, err) ==
  CASE pc = "start"    -> IF err THEN "done" ELSE "gostdout"
    [] pc = "gostdout" -> "gostderr"
    [] pc = "gostderr" -> "wait"
    [] pc = "wait"     -> "deferred"
    [] pc = "deferred" -> "done"

\* as a wg.Done() that is not deferred, placed after the exit marker, would do:
\* the early returns skip it
TaskNextNoDefer(pc, err) ==
  CASE pc = "start"    -> IF err THEN "done" ELSE "gostdout"
    [] pc = "gostdout" -> "gostderr"
    [] pc = "gostderr" -> "wait"
    [] pc = "wait"     -> IF err THEN "done" ELSE "deferred"
    [] pc = "deferred" -> "done"

\* logs.go:105-155  the goroutine's next place, from the place it is at and
\* whether the calls there returned an error: every path ends in the deferred
\* wg.Done()
TaskNext(pc, err) ==
  CASE pc = "start"    -> IF err THEN "deferred" ELSE "gostdout"
    [] pc = "gostdout" -> "gostderr"
    [] pc = "gostderr" -> "wait"
    [] pc = "wait"     -> "deferred"
    [] pc = "deferred" -> "done"

\* the calls of logs.go:108-123 that can fail
StartFailures == {"StdoutPipe", "StderrPipe", "Start"}

\* logs.go:111, 116, 121, 150  logrus.Errorln(err);  logs.go:154  the marker
TerminalRecord(err) == IF err THEN "error" ELSE "exit"

\* as an error branch without its return would do: the goroutine goes on to
\* the exit marker
LogTerminalNoReturn(log, err) ==
  IF err THEN log \o <<"error", "exit">> ELSE Append(log, "exit")

\* logs.go:110-112, 115-117, 120-122, 149-154  the error is logged and the
\* goroutine returns, or the exit marker is logged
LogTerminal(log, err) == Append(log, TerminalRecord(err))

\* logs.go:108-123  command.StdoutPipe(), command.StderrPipe() and
\* command.Start(): the one that fails is logged and the goroutine returns;
\* when none fails the subprocess runs from here on, before any reader does
TaskStart(t, failure) ==
  /\ Alive /\ tpc[t] = "start"
  /\ LET err == failure \in StartFailures
     IN  /\ tpc' = [tpc EXCEPT ![t] = TaskNext(@, err)]
         /\ proc' = [proc EXCEPT ![t] = IF err THEN failure ELSE "running"]
         /\ termlog' = [termlog EXCEPT ![t] =
                          IF err THEN LogTerminal(@, TRUE) ELSE @]
  /\ UNCHANGED <<inputs, mainv, wg, tasks, written, pipe, rdclosed, rd, emitted>>

\* the place of the goroutine at the go statement of a channel's reader
GoPlace(ch) == IF ch = "stdout" THEN "gostdout" ELSE "gostderr"

\* logs.go:125, 137  a go statement starts the reader of one channel, the
\* stdout reader first
TaskGo(t, ch) ==
  /\ Alive /\ tpc[t] = GoPlace(ch)
  /\ tpc' = [tpc EXCEPT ![t] = TaskNext(@, FALSE)]
  /\ rd' = [rd EXCEPT ![t][ch] = [pc |-> "read", buf |-> <<>>]]
  /\ UNCHANGED <<inputs, mainv, wg, tasks, proc, written, pipe, rdclosed,
                 emitted, termlog>>

\* logs.go:149-154  command.Wait() returns once the subprocess has exited: it
\* reaps the exit status, closes the read ends of both pipes, whatever they
\* still hold, and the status is logged as an error or as the exit marker
TaskWait(t, status) ==
  /\ Alive /\ tpc[t] = "wait" /\ proc[t] = "exited"
  /\ tpc' = [tpc EXCEPT ![t] = TaskNext(@, status = "exit1")]
  /\ proc' = [proc EXCEPT ![t] = status]
  /\ rdclosed' = [rdclosed EXCEPT ![t] = TRUE]
  /\ pipe' = [pipe EXCEPT ![t] = NoBytes]
  /\ termlog' = [termlog EXCEPT ![t] = LogTerminal(@, status = "exit1")]
  /\ UNCHANGED <<inputs, mainv, wg, tasks, written, rd, emitted>>

\* logs.go:106  defer wg.Done(), run when the goroutine's function returns
TaskDone(t) ==
  /\ Alive /\ tpc[t] = "deferred"
  /\ wg' = wg - 1
  /\ tpc' = [tpc EXCEPT ![t] = TaskNext(@, FALSE)]
  /\ UNCHANGED <<inputs, mainv, tasks, proc, written, pipe, rdclosed, rd,
                 emitted, termlog>>

\* ---------------------------------------------------------- the subprocess
RECURSIVE TotalWritten(_)
TotalWritten(w) ==
  IF w = <<>> THEN 0
  ELSE Len(Head(w)["stdout"]) + Len(Head(w)["stderr"]) + TotalWritten(Tail(w))

\* the subprocess writes one more byte, a newline or not, to a pipe with room;
\* the subprocesses of a run write at most MaxOut bytes between them
ProcWrite(t, ch, newline) ==
  /\ Alive /\ proc[t] = "running"
  /\ TotalWritten(written) < quota
  /\ Len(pipe[t][ch]) < PipeCap
  /\ LET k == Len(written[t][ch]) + 1
         b == IF newline THEN 0 - k ELSE k
     IN  /\ written' = [written EXCEPT ![t][ch] = Append(@, b)]
         /\ pipe' = [pipe EXCEPT ![t][ch] = Append(@, b)]
  /\ UNCHANGED <<inputs, mainv, wg, tasks, tpc, proc, rdclosed, rd, emitted,
                 termlog>>

\* the subprocess exits and its ends of the pipes close; its status, zero or
\* not, is what command.Wait() will reap
ProcExit(t) ==
  /\ Alive /\ proc[t] = "running"
  /\ proc' = [proc EXCEPT ![t] = "exited"]
  /\ UNCHANGED <<inputs, mainv, wg, tasks, tpc, written, pipe, rdclosed, rd,
                 emitted, termlog>>

Exited(p) == p \in {"exited", "exit0", "exit1"}

\* ---------------------------------------------------------------- readers
IsNewline(b) == b < 0
HasLine(buf) == \E i \in 1..Len(buf) : IsNewline(buf[i])
LineEnd(buf) == CHOOSE i \in 1..Len(buf) :
                  IsNewline(buf[i]) /\ \A j \in 1..(i - 1) : ~IsNewline(buf[j])

\* as one goroutine that drains stdout to its end and only then stderr would do
ReaderRunsInTurn(t, ch) ==
  rd[t][ch].pc = "read" /\ (ch = "stderr" => rd[t]["stdout"].pc = "done")

\* logs.go:125, 137  each reader is a goroutine of its own, in its loop from
\* the go statement until the break
ReaderRuns(t, ch) == rd[t][ch].pc = "read"

\* as a log that puts the newest line first would do
EmitFirst(log, line) == <<line>> \o log

\* logs.go:133, 145  logrus.Infoln(prefix + line)
Emit(log, line) == Append(log, line)

\* logs.go:129-133, 141-145  reader.ReadString('\n') finds a line in its
\* buffer, and the line is logged with the prefix
ReaderLine(t, ch) ==
  /\ Alive /\ ReaderRuns(t, ch) /\ HasLine(rd[t][ch].buf)
  /\ LET buf == rd[t][ch].buf
         n == LineEnd(buf)
     IN  /\ rd' = [rd EXCEPT ![t][ch].buf = Drop(buf, n)]
         /\ emitted' = [emitted EXCEPT ![t][ch] = Emit(@, SubSeq(buf, 1, n))]
  /\ UNCHANGED <<inputs, mainv, wg, tasks, tpc, proc, written, pipe, rdclosed,
                 termlog>>

\* logs.go:129, 141  ReadString reads what the pipe holds into its buffer
ReaderFill(t, ch) ==
  /\ Alive /\ ReaderRuns(t, ch) /\ ~HasLine(rd[t][ch].buf)
  /\ ~rdclosed[t] /\ pipe[t][ch] # <<>>
  /\ rd' = [rd EXCEPT ![t][ch].buf = @ \o pipe[t][ch]]
  /\ pipe' = [pipe EXCEPT ![t][ch] = <<>>]
  /\ UNCHANGED <<inputs, mainv, wg, tasks, tpc, proc, written, rdclosed,
                 emitted, termlog>>

\* logs.go:130-132, 142-144  ReadString returns an error, io.EOF at the end of
\* the stream or the error of a read end that Wait has closed, and the loop
\* breaks; what the buffer holds is dropped with it
ReaderStop(t, ch) ==
  /\ Alive /\ ReaderRuns(t, ch) /\ ~HasLine(rd[t][ch].buf)
  /\ \/ rdclosed[t]
     \/ pipe[t][ch] = <<>> /\ Exited(proc[t])
  /\ rd' = [rd EXCEPT ![t][ch] = [pc |-> "done", buf |-> <<>>]]
  /\ UNCHANGED <<inputs, mainv, wg, tasks, tpc, proc, written, pipe, rdclosed,
                 emitted, termlog>>

\* ----------------------------------------------------------- specification
TaskStep(t) ==
  \/ \E failure \in StartFailures \cup {"none"} : TaskStart(t, failure)
  \/ \E ch \in Chan : TaskGo(t, ch)
  \/ \E status \in {"exit0", "exit1"} : TaskWait(t, status)
  \/ TaskDone(t)

ProcStep(t) ==
  \/ \E ch \in Chan, newline \in BOOLEAN : ProcWrite(t, ch, newline)
  \/ ProcExit(t)

ReaderStep(t, ch) ==
  \/ ReaderLine(t, ch)
  \/ ReaderFill(t, ch)
  \/ ReaderStop(t, ch)

NextLaunch == LaunchTask \/ NextPod \/ LaunchDone \/ Return

\* clusters and patterns of the runs of main
PodA == [name |-> <<"a">>, cs |-> <<<<"w">>, <<"W">>>>]
PodBA == [name |-> <<"b", "a">>, cs |-> <<<<"w", "x">>, <<"w">>>>]
MainClusters == {<<>>, <<PodA>>, <<PodA, PodBA>>}
MainPatterns == {<<"a">>, <<"^", "a">>, <<"b", "*">>, <<"(">>}

\* the main goroutine alone, up to wg.Wait(): the resolve loop over several
\* patterns and the launch loops, before any launched goroutine is scheduled
InitMain ==
  /\ args \in ArgSeqs(MainPatterns, MaxArgs)
  /\ copt \in ContainerOpts
  /\ cluster \in MainClusters
  /\ failAt \in 0..Len(args)
  /\ quota = MaxOut
  /\ InitState

NextMain == NextResolve \/ NextLaunch

MainSpec == InitMain /\ [][NextMain]_vars

\* the runs of the whole program: no argument, one pod with one or two kept
\* containers, a pod that matches with the phantom record, and runs that end
\* in a fatal error after a first argument resolved
RECURSIVE PairCount(_)
PairCount(ps) ==
  IF ps = <<>> THEN 0 ELSE Len(Head(ps).Containers) + PairCount(Tail(ps))

Unset == [changed |-> FALSE, value |-> <<>>]
OnlyW == [changed |-> TRUE, value |-> <<"W">>]

Scenarios ==
  {[args |-> <<>>, copt |-> Unset, failAt |-> 0],
   [args |-> <<<<"a">>>>, copt |-> Unset, failAt |-> 0],
   [args |-> <<<<"a">>>>, copt |-> OnlyW, failAt |-> 0],
   [args |-> <<<<"a">>>>, copt |-> Unset, failAt |-> 1],
   [args |-> <<<<"b", "*">>>>, copt |-> OnlyW, failAt |-> 0],
   [args |-> <<<<"a">>, <<"(">>>>, copt |-> Unset, failAt |-> 0],
   [args |-> <<<<"a">>, <<"a">>>>, copt |-> OnlyW, failAt |-> 2]}

\* the (pod, container) pairs the arguments of a run resolve to
Pairs ==
  PairCount(Flatten([i \in 1..Len(args) |->
    IF Compile(args[i]) THEN cmdGetPods(args[i], copt.value, DiscoveryOut)
    ELSE <<>>]))

InitRun ==
  /\ \E s \in Scenarios :
       args = s.args /\ copt = s.copt /\ failAt = s.failAt
  /\ cluster = <<PodA>>
  /\ Pairs <= MaxTasks
  /\ InitState

Init == InitRun /\ quota = MaxOut

Next ==
  \/ NextResolve
  \/ NextLaunch
  \/ \E t \in Tasks : TaskStep(t)
  \/ \E t \in Tasks : ProcStep(t)
  \/ \E t \in Tasks, ch \in Chan : ReaderStep(t, ch)

Spec == Init /\ [][Next]_vars

\* the Go scheduler runs every goroutine that can take a step, and every
\* log-fetch subprocess that started exits
Fairness ==
  /\ WF_vars(NextMain)
  /\ \A t \in 1..MaxTasks :
       /\ WF_vars(t \in Tasks /\ TaskStep(t))
       /\ WF_vars(t \in Tasks /\ ProcExit(t))
       /\ \A ch \in Chan : WF_vars(t \in Tasks /\ ReaderStep(t, ch))

\* the runs of Spec, where the subprocesses of a run of several tasks write a
\* single byte between them
FairQuota(n) == IF n > 1 THEN 1 ELSE MaxOut

InitFair == InitRun /\ quota = FairQuota(Pairs)

FairSpec == InitFair /\ [][Next]_vars /\ Fairness

\* the Go scheduler runs every reader goroutine that can take a step, and the
\* task goroutine at its go statements; nothing else is assumed of the
\* goroutines, and whether and when a subprocess writes or exits is its own
\* affair
DrainFairness ==
  \A t \in 1..DrainTasks, ch \in Chan :
    /\ WF_vars(t \in Tasks /\ TaskGo(t, ch))
    /\ WF_vars(t \in Tasks /\ ReaderStep(t, ch))

\* what the resolve loop meets that is fatal: a discovery invocation that
\* fails or, when it does not, a pattern that does not compile
ResolveFails ==
  \E i \in 1..Len(args) : DiscoveryErr(i) \/ ~Compile(args[i])

\* the runs of InitFair that launch at most DrainTasks tasks
InitDrain ==
  /\ InitRun /\ quota = FairQuota(Pairs)
  /\ ResolveFails \/ Pairs <= DrainTasks

DrainSpec == InitDrain /\ [][Next]_vars /\ DrainFairness

\* ================================================================== claims
\* the complete lines of a channel's bytes, each with its newline
RECURSIVE CompleteLines(_)
CompleteLines(w) ==
  IF HasLine(w)
    THEN <<SubSeq(w, 1, LineEnd(w))>> \o CompleteLines(Drop(w, LineEnd(w)))
    ELSE <<>>

\* the place in the channel's stream where a line ends
LinePos(line) == 0 - line[Len(line)]

SameString(a, b) == Len(a) = Len(b) /\ \A k \in 1..Len(a) : a[k] = b[k]

Failed(t) == termlog[t] = <<"error">>

\* C1: when Run has returned (wg.Wait() was passed), every launched task has
\* logged its terminal record, the exit marker or an error.
C1_ReturnAfterTerminalRecords ==
  mpc = "returned" => \A t \in Tasks : termlog[t] # <<>>

C1_Witness ==
  /\ mpc = "returned" /\ Len(tasks) = 2
  /\ termlog[1] = <<"error">> /\ termlog[2] = <<"exit">>

\* C2: a task that started its subprocess has released its token (wg.Done())
\* only when the subprocess has exited and both readers are at the end of
\* their stream with every line the subprocess wrote emitted.
C2_TokenReleasedAfterDrain ==
  \A t \in Tasks :
    (tpc[t] = "done" /\ proc[t] \notin StartFailures) =>
      /\ Exited(proc[t])
      /\ \A ch \in Chan : emitted[t][ch] = CompleteLines(written[t][ch])

\* C3: once a task has failed, at pipe acquisition, at launch or with a
\* non-zero exit, the run still passes the barrier with every task at its
\* terminal record.
C3_FailedTaskBlocksNoOther ==
  (\E u \in Tasks : Failed(u))
    ~> (mpc = "returned" /\ \A t \in Tasks : termlog[t] # <<>>)

C3_Witness ==
  /\ mpc = "returned" /\ Len(tasks) = 2
  /\ proc[1] = "exit1" /\ termlog[1] = <<"error">> /\ termlog[2] = <<"exit">>

\* C4 as stated: the process exits non-zero exactly when a discovery
\* invocation fails or a pattern does not compile.
C4_NonZeroIffResolveFails ==
  exitCode # 0 - 1 => (exitCode # 0 <=> ResolveFails)

\* cmd.Execute() has called Run: the command line parsed and did not ask for
\* the help text
RunCalled == mpc \notin {"execute", "help"} /\ fatal # "usage"

\* C4 amended: the process exits non-zero exactly when cmd.Execute() returns
\* an error for the command line or, Run having been called, a discovery
\* invocation fails or a pattern does not compile; otherwise it exits zero,
\* whatever tasks failed, and with --help whatever the arguments are.
C4_NonZeroIffUsageOrResolveFails ==
  exitCode # 0 - 1 =>
    (exitCode # 0 <=> (fatal = "usage" \/ (RunCalled /\ ResolveFails)))

C4_Witness ==
  /\ exitCode = 0 /\ Len(tasks) = 2
  /\ proc[1] \in StartFailures /\ proc[2] = "exit1"
  /\ termlog[1] = <<"error">> /\ termlog[2] = <<"error">>

\* C5: once a discovery invocation or a pattern's compilation has failed, no
\* log-fetch goroutine, and so no log-fetch subprocess, has been or is
\* launched, whatever the earlier arguments resolved to.
C5_FatalBeforeAnyLaunch ==
  fatal \in {"discovery", "compile"} => tasks = <<>>

C5_Witness ==
  /\ fatal = "compile" /\ argi = 2 /\ PairCount(pods) > 0 /\ tasks = <<>>

\* C6: for a discovery output of R well-formed records, cmdGetPods returns at
\* most R pods, and exactly the pods whose name the pattern matches, in a
\* search.
C6_AtMostRExactlyTheMatching ==
  (mpc = "launch" /\ Len(args) = 1) =>
    /\ Len(pods) <= Len(cluster)
    /\ [i \in 1..Len(pods) |-> pods[i].Name] =
         SelectSeq([k \in 1..Len(cluster) |-> cluster[k].name],
                   LAMBDA n : MatchString(args[1], n))

\* C7: within a kept pod, a container of its record is kept if and only if
\* the filter is empty or equals the container's name character for
\* character.
C7_ExactContainerFilter ==
  \A i \in 1..Len(pods), k \in 1..Len(cluster) :
    cluster[k].name = pods[i].Name =>
      \A j \in 1..Len(cluster[k].cs) :
        LET c == cluster[k].cs[j]
        IN  (\E m \in 1..Len(pods[i].Containers) : pods[i].Containers[m] = c)
              <=> (copt.value = <<>> \/ SameString(copt.value, c))

C7_Witness ==
  /\ mpc = "launch" /\ copt.value = <<"w">>
  /\ \E i \in 1..Len(pods), k \in 1..Len(cluster) :
       /\ cluster[k].name = pods[i].Name
       /\ cluster[k].cs \in {<<<<"w">>, <<"W">>>>, <<<<"w", "x">>, <<"w">>>>}
       /\ pods[i].Containers = <<<<"w">>>>

\* C8: after the resolve loop, pods.Items is the concatenation, in argument
\* order, of what cmdGetPods gives for each pattern alone; a pod two patterns
\* match is there twice.
C8_ConcatInArgumentOrder ==
  mpc \in {"launch", "wait", "returned"} =>
    pods = Flatten([i \in 1..Len(args) |->
                      cmdGetPods(args[i], copt.value, DiscoveryOut)])

C8_Witness ==
  /\ mpc = "wait" /\ args = <<<<"a">>, <<"^", "a">>>> /\ cluster = <<PodA, PodBA>>
  /\ copt.value = <<>>
  /\ [i \in 1..Len(pods) |-> pods[i].Name] = <<<<"a">>, <<"b", "a">>, <<"a">>>>
  /\ Len(tasks) = 6

\* the (pod, container) places of a PodSet, in the order of the loops
TaskPlaces(ps) ==
  Flatten([p \in 1..Len(ps) |->
             [c \in 1..Len(ps[p].Containers) |-> <<p, c>>]])

\* C9: when main reaches wg.Wait(), the launched tasks are the (pod,
\* container) places of the PodSet, each once and in order, with that pod's
\* and container's names; P pods of C containers each give P * C tasks.
C9_OneTaskPerPair ==
  mpc \in {"wait", "returned"} =>
    /\ [k \in 1..Len(tasks) |-> <<tasks[k].pod, tasks[k].container>>] = TaskPlaces(pods)
    /\ \A k \in 1..Len(tasks) :
         tasks[k].prefix =
           <<pods[tasks[k].pod].Name, pods[tasks[k].pod].Containers[tasks[k].container]>>
    /\ \A n \in 0..Len(tasks) :
         (\A p \in 1..Len(pods) : Len(pods[p].Containers) = n) =>
           Len(tasks) = Len(pods) * n

C9_Witness ==
  /\ mpc = "wait" /\ Len(pods) = 2 /\ Len(tasks) = 4
  /\ \A p \in 1..Len(pods) : Len(pods[p].Containers) = 2

\* C10: the lines a reader has emitted are lines of its channel, in the order
\* the subprocess wrote them.
C10_ChannelOrderKept ==
  \A t \in Tasks, ch \in Chan :
    LET e == emitted[t][ch]
        ls == CompleteLines(written[t][ch])
    IN  /\ \A i \in 1..Len(e) : \E n \in 1..Len(ls) : ls[n] = e[i]
        /\ \A i, j \in 1..Len(e) : i < j => LinePos(e[i]) < LinePos(e[j])

C10_Witness ==
  \E t \in Tasks, ch \in Chan :
    /\ Len(tasks) = 2 /\ Len(emitted[t][ch]) = 2

\* C11: the command of a task has " --container <name>" appended, with the
\* name of the task's container, exactly when no container filter was supplied
\* (o.Container is empty); with a filter it is omitted.
C11_ContainerFlagIffNoFilter ==
  \A t \in Tasks :
    LET pod == pods[tasks[t].pod]
    IN  /\ tasks[t].str.pod = pod.Name
        /\ tasks[t].str.container =
             (IF copt.value = <<>> THEN <<pod.Containers[tasks[t].container]>> ELSE <<>>)

C11_Witness ==
  /\ mpc = "wait" /\ Len(tasks) = 2 /\ copt.changed /\ copt.value = <<"w">>
  /\ tasks[1].str.container = <<>> /\ tasks[2].str.container = <<>>

\* C12: a task never has more than one terminal record, and has one once its
\* goroutine's function has returned: an error when StdoutPipe, StderrPipe,
\* Start or Wait returned one, the exit marker, with the task's prefix, when
\* the subprocess started and exited with status zero, and never otherwise.
C12_OneTerminalRecord ==
  \A t \in Tasks :
    /\ Len(termlog[t]) <= 1
    /\ tpc[t] \in {"deferred", "done"} => Len(termlog[t]) = 1
    /\ termlog[t] = <<"error">> <=> proc[t] \in StartFailures \cup {"exit1"}
    /\ termlog[t] = <<"exit">> <=> proc[t] = "exit0"
    /\ tasks[t].prefix =
         <<pods[tasks[t].pod].Name, pods[tasks[t].pod].Containers[tasks[t].container]>>

C12_Witness ==
  /\ Len(tasks) = 2 /\ tpc[1] = "done" /\ tpc[2] = "done"
  /\ proc[1] = "exit1" /\ termlog[1] = <<"error">>
  /\ proc[2] = "exit0" /\ termlog[2] = <<"exit">>

\* a write of the subprocess to this pipe blocks: the pipe is full
PipeFull(t, ch) ==
  t \in Tasks /\ proc[t] = "running" /\ Len(pipe[t][ch]) = PipeCap

\* C13: while a subprocess runs, a pipe of it that is full, on which its next
\* write blocks, is eventually read by the pipe's reader, whatever the other
\* pipe holds and whether or not the subprocess ever exits: no write blocks
\* forever.
C13_NoWriteBlocksForever ==
  \A t \in 1..DrainTasks, ch \in Chan : PipeFull(t, ch) ~> ~PipeFull(t, ch)

C13_Witness ==
  \E t \in Tasks :
    /\ proc[t] = "running" /\ tpc[t] = "wait"
    /\ Len(written[t]["stderr"]) = PipeCap + 1
    /\ Len(pipe[t]["stderr"]) = PipeCap
    /\ rd[t]["stdout"].pc = "read" /\ written[t]["stdout"] = <<>>

\* C14: once discovery has succeeded for every argument, if every subprocess
\* that started exits, every launched task releases its token (wg.Done() has
\* run, on the error paths too) and the run passes wg.Wait() and returns.
C14_RunTerminates ==
  (mpc = "launch")
    ~> (mpc = "returned" /\ wg = 0 /\ \A t \in Tasks : tpc[t] = "done")

C14_Witness ==
  /\ mpc = "returned" /\ wg = 0 /\ Len(tasks) = 2
  /\ proc[1] \in StartFailures /\ tpc[1] = "done"
  /\ proc[2] = "exit0" /\ tpc[2] = "done"

\* what follows the last newline of a channel's bytes
RECURSIVE Rest(_)
Rest(w) == IF HasLine(w) THEN Rest(Drop(w, LineEnd(w))) ELSE w

\* the lines of a channel's bytes: the complete ones and, when the bytes do
\* not end with a newline, the data after the last one
AllLines(w) ==
  CompleteLines(w) \o (IF Rest(w) = <<>> THEN <<>> ELSE <<Rest(w)>>)

\* C15: a reader that has read its channel to the end of the stream has
\* emitted every line of it, the last one too when the subprocess did not
\* end it with a newline.
C15_LastLineEmitted ==
  \A t \in Tasks, ch \in Chan :
    (rd[t][ch].pc = "done" /\ ~rdclosed[t]) =>
      emitted[t][ch] = AllLines(written[t][ch])

\* C16: a pod of the cluster whose name a pattern matches and none of whose
\* containers equals the filter is in pods.Items once for each pattern that
\* matches it, with no container; it is counted in the logged pod total, and
\* no task is launched for it.
C16_PodWithoutContainersKept ==
  mpc \in {"wait", "returned"} =>
    /\ reported = Len(pods)
    /\ \A k \in 1..Len(cluster) :
         LET r == cluster[k]
             hits == {i \in 1..Len(args) : MatchString(args[i], r.name)}
             here == {p \in 1..Len(pods) : pods[p].Name = r.name}
         IN  (copt.value # <<>> /\ \A j \in 1..Len(r.cs) : r.cs[j] # copt.value) =>
               /\ Cardinality(here) = Cardinality(hits)
               /\ \A p \in here :
                    /\ pods[p].Containers = <<>>
                    /\ ~\E t \in Tasks : tasks[t].pod = p

C16_Witness ==
  /\ mpc = "wait" /\ copt.value = <<"W">> /\ cluster = <<PodA, PodBA>>
  /\ reported = 2 /\ Len(pods) = 2
  /\ pods[2].Name = <<"b", "a">> /\ pods[2].Containers = <<>>
  /\ Len(tasks) = 1 /\ tasks[1].pod = 1

\* the pod a discovery record gives under a filter: its name and, in the
\* record's order, its container names that pass the filter
RecordPod(r, f) ==
  [Name |-> r.name,
   Containers |-> SelectSeq(r.cs, LAMBDA c : f = <<>> \/ f = c)]

\* C17: cmdGetPods returns, in the order of the discovery output, the records
\* whose name the pattern matches and no other pod, each with its container
\* names that pass the filter in the record's order.
C17_DiscoveryOrderKept ==
  (mpc = "launch" /\ Len(args) = 1) =>
    pods = [i \in 1..Len(SelectSeq(cluster, LAMBDA r : MatchString(args[1], r.name))) |->
              RecordPod(SelectSeq(cluster, LAMBDA r : MatchString(args[1], r.name))[i],
                        copt.value)]

\* C18: when Run has returned, every newline-terminated line a started
\* subprocess wrote on a channel has been emitted by the channel's reader,
\* once.
C18_NoLineLost ==
  mpc = "returned" =>
    \A t \in Tasks, ch \in Chan :
      proc[t] \in {"exit0", "exit1"} =>
        emitted[t][ch] = CompleteLines(written[t][ch])

\* the containers a command line designates: the values of its forwarded
\* --container flags, then the name of the appended one
Designated(str) ==
  LET fwd == SelectSeq(str.fg, LAMBDA f : f.name = "container")
  IN  [i \in 1..Len(fwd) |-> fwd[i].value] \o str.container

\* C19: the command line of every launched task designates one container,
\* once, and it is the container of the task's prefix, whatever --container
\* flag the caller gave, the empty one included.
C19_OneContainerDesignation ==
  \A t \in Tasks : Designated(tasks[t].str) = <<tasks[t].prefix[2]>>

====
